---- MODULE Spec2Model ----
(***************************************************************************)
(* Model of storage/controllers.go of romanbakaleyko/library: the book     *)
(* catalog kept in a JSON file (package-level functions and the methods of *)
(* the library type) or in a relational table (library with useSql).       *)
(*                                                                         *)
(* Strings of the program are strings here; the empty identifier is "".    *)
(* A price is a decimal number, kept as an integer count of hundredths     *)
(* (100 is 1.00).  A Go slice is a record that keeps nil apart from empty. *)
(***************************************************************************)
EXTENDS Integers, Sequences, FiniteSets, TLC

VARIABLES file, db, useSql, issued, ret

vars == <<file, db, useSql, issued, ret>>

-----------------------------------------------------------------------------
(* Bounds of the model *)

\* Longest catalog a create is still tried on.
MaxBooks == 2

\* Number of identifiers uuid.NewV4 hands out in one behaviour.
MaxUUID == 3

\* Longest filter expression enumerated.
MaxFilterLen == 3

-----------------------------------------------------------------------------
(* Values *)

\* The identifiers uuid.NewV4().String() returns, in the order it returns them:
\* a generator never returns the same value twice.
UUIDs == <<"u1", "u2", "u3", "u4", "u5", "u6">>

NewV4(n) == UUIDs[n + 1]

\* A Go slice of strings: nil, or a (possibly empty) list.
NilSlice == [isNil |-> TRUE, elems |-> <<>>]

Slice(s) == [isNil |-> FALSE, elems |-> s]

\* type Book: ID, Title, Pages, Price, Genres.
Book(id, title, pages, price, genres) ==
    [ID |-> id, Title |-> title, Pages |-> pages, Price |-> price, Genres |-> genres]

\* var b Book: the zero value.
ZeroBook == Book("", "", 0, 0, NilSlice)

\* WithID without the assignment: the book keeps the identifier it came with.
WithID_forgotten(book, id) == book

WithID(book, id) == [book EXCEPT !.ID = id]

\* The identifiers of a list of books, as a set.
IDsOf(books) == {books[i].ID : i \in 1..Len(books)}

-----------------------------------------------------------------------------
(* The JSON document of the file backend *)

JNull == [kind |-> "null", items |-> <<>>]

JArray(s) == [kind |-> "array", items |-> s]

\* A string whose last byte, 0xFF, is no UTF-8, and the string json.Marshal
\* writes for it: the byte replaced by U+FFFD.
InvalidUTF8 == "Dune<0xFF>"

ReplacedUTF8 == "Dune<U+FFFD>"

\* The encoding of a string by json.Marshal: the string coerced to valid UTF-8.
ToValidUTF8(str) == IF str = InvalidUTF8 THEN ReplacedUTF8 ELSE str

\* json.MarshalIndent of one Book: an object with the fields id, title, pages,
\* price, genres; a nil slice is written as null, any other as an array.
MarshalBook(b) ==
    [id |-> ToValidUTF8(b.ID), title |-> ToValidUTF8(b.Title),
     pages |-> b.Pages, price |-> b.Price,
     genres |-> IF b.Genres.isNil THEN JNull
                ELSE JArray([i \in 1..Len(b.Genres.elems) |->
                                ToValidUTF8(b.Genres.elems[i])])]

\* json.MarshalIndent(books, "", "    ")
MarshalIndent(books) == [i \in 1..Len(books) |-> MarshalBook(books[i])]

\* json.Unmarshal of one object into a Book: null leaves the slice nil.
UnmarshalBook(j) ==
    Book(j.id, j.title, j.pages, j.price,
         IF j.genres.kind = "null" THEN NilSlice ELSE Slice(j.genres.items))

\* json.Unmarshal(file, &books)
Unmarshal(doc) == [i \in 1..Len(doc) |-> UnmarshalBook(doc[i])]

\* The storage file: missing, holding bytes that are no JSON document (what a
\* write that failed half way leaves), or holding a JSON list of books.
MissingFile == [state |-> "missing", doc |-> <<>>]

CorruptFile == [state |-> "corrupt", doc |-> <<>>]

JSONFile(doc) == [state |-> "json", doc |-> doc]

\* ioutil.WriteFile(path, bytes, 0644): it truncates, then writes.  It can fail
\* before truncating (the file is as it was) or after (the file is cut short).
WriteFile(f, doc) ==
    { [err |-> "nil", file |-> JSONFile(doc)],
      [err |-> "io", file |-> f],
      [err |-> "io", file |-> CorruptFile] }

\* A call as its caller holds it: the operation, the arguments passed (an
\* identifier, a book, a filter expression), the error returned ("nil" for
\* none), the identifier a create assigned, and the book or books returned.
Ret(op, id, book, price, err, newID, got, books) ==
    [op |-> op, id |-> id, book |-> book, price |-> price,
     err |-> err, newID |-> newID, got |-> got, books |-> books]

NoCall == Ret("none", "", ZeroBook, <<>>, "nil", "", ZeroBook, <<>>)

-----------------------------------------------------------------------------
(* Package-level functions (the file "storage/storage.json") *)

\* func writeData(books Books) error
writeData(f, books) == WriteFile(f, MarshalIndent(books))

\* func wantedIndex(id string, books Books) (int, error): the first index whose
\* book has the id (indices from 1 here).
wantedIndex(id, books) ==
    IF \E i \in 1..Len(books) : books[i].ID = id
    THEN [err |-> "nil",
          index |-> CHOOSE i \in 1..Len(books) :
                        /\ books[i].ID = id
                        /\ \A k \in 1..(i - 1) : books[k].ID # id]
    ELSE [err |-> "notfound", index |-> 0]

\* func GetBooks() (Books, error)
GetBooksOf(f) ==
    IF f.state = "missing" THEN [err |-> "io", books |-> <<>>]
    ELSE IF f.state = "corrupt" THEN [err |-> "json", books |-> <<>>]
    ELSE [err |-> "nil", books |-> Unmarshal(f.doc)]

\* The switch at the head of CreateBook: TRUE when the book is rejected.
notPopulated(book) ==
    \/ book.Genres.isNil
    \/ book.Pages = 0
    \/ book.Price = 0
    \/ book.Title = ""

\* append(books[:index], books[index+1:]...)
removeAt(books, index) ==
    SubSeq(books, 1, index - 1) \o SubSeq(books, index + 1, Len(books))

\* func CreateBook(book Book) error.  n is the number of identifiers issued so
\* far.  Each outcome: the error, the identifier assigned, the file and the issued
\* count after the call.
CreateBookOutcomes(book, f, n) ==
    IF notPopulated(book)
    THEN {[err |-> "validation", id |-> "", file |-> f, issued |-> n]}
    ELSE LET g == GetBooksOf(f) IN
         IF g.err # "nil"
         THEN {[err |-> g.err, id |-> "", file |-> f, issued |-> n]}
         ELSE LET id == NewV4(n)
                  books == Append(g.books, WithID(book, id))
              IN {[err |-> w.err, id |-> id, file |-> w.file, issued |-> n + 1] : w \in writeData(f, books)}

\* func GetBook(id string) (Book, error): the first book of the file with the id.
GetBookOf(f, id) ==
    LET g == GetBooksOf(f) IN
    IF g.err # "nil" THEN [err |-> g.err, book |-> ZeroBook]
    ELSE IF \E i \in 1..Len(g.books) : g.books[i].ID = id
    THEN [err |-> "nil",
          book |-> g.books[CHOOSE i \in 1..Len(g.books) :
                               /\ g.books[i].ID = id
                               /\ \A k \in 1..(i - 1) : g.books[k].ID # id]]
    ELSE [err |-> "notfound", book |-> ZeroBook]

\* func RemoveBook(id string) error
RemoveBookOutcomes(id, f) ==
    LET g == GetBooksOf(f) IN
    IF g.err # "nil"
    THEN {[err |-> g.err, id |-> "", file |-> f]}
    ELSE LET w == wantedIndex(id, g.books) IN
         IF w.err # "nil"
         THEN {[err |-> w.err, id |-> "", file |-> f]}
         ELSE {[err |-> o.err, id |-> "", file |-> o.file]
                 : o \in writeData(f, removeAt(g.books, w.index))}

\* The four conditional assignments of ChangeBook: a field of changedBook that
\* is not the zero value replaces the field of book.
merge(book, changedBook) ==
    [book EXCEPT
       !.Price = IF changedBook.Price # 0 THEN changedBook.Price ELSE @,
       !.Title = IF changedBook.Title # "" THEN changedBook.Title ELSE @,
       !.Pages = IF changedBook.Pages # 0 THEN changedBook.Pages ELSE @,
       !.Genres = IF ~changedBook.Genres.isNil THEN changedBook.Genres ELSE @]

\* ChangeBookOutcomes that takes the book out and appends the changed one.
ChangeBookOutcomes_movingLast(id, changedBook, f) ==
    LET g == GetBooksOf(f) IN
    IF g.err # "nil"
    THEN {[err |-> g.err, id |-> "", file |-> f]}
    ELSE LET w == wantedIndex(id, g.books) IN
         IF w.err # "nil"
         THEN {[err |-> w.err, id |-> "", file |-> f]}
         ELSE LET books == Append(removeAt(g.books, w.index),
                                  merge(g.books[w.index], changedBook))
              IN {[err |-> o.err, id |-> "", file |-> o.file]
                    : o \in writeData(f, books)}

\* func ChangeBook(id string, changedBook Book) error
ChangeBookOutcomes(id, changedBook, f) ==
    LET g == GetBooksOf(f) IN
    IF g.err # "nil"
    THEN {[err |-> g.err, id |-> "", file |-> f]}
    ELSE LET w == wantedIndex(id, g.books) IN
         IF w.err # "nil"
         THEN {[err |-> w.err, id |-> "", file |-> f]}
         ELSE LET books == [g.books EXCEPT ![w.index] = merge(@, changedBook)]
              IN {[err |-> o.err, id |-> "", file |-> o.file]
                    : o \in writeData(f, books)}

-----------------------------------------------------------------------------
(* The filter expression *)

\* A filter expression is a string, here the sequence of its characters.
DigitChars == <<"0", "1", "2", "3", "4", "5", "6", "7", "8", "9">>

IsDigit(c) == \E d \in 1..Len(DigitChars) : DigitChars[d] = c

DigitValue(c) == (CHOOSE d \in 1..Len(DigitChars) : DigitChars[d] = c) - 1

RECURSIVE Pow10(_)
Pow10(k) == IF k = 0 THEN 1 ELSE 10 * Pow10(k - 1)

\* The number a string of digits writes.
RECURSIVE DigitsValue(_)
DigitsValue(s) ==
    IF s = <<>> THEN 0
    ELSE 10 * DigitsValue(SubSeq(s, 1, Len(s) - 1)) + DigitValue(s[Len(s)])

\* strconv.ParseFloat(s, 64) on the decimal notation: an optional sign, digits
\* with at most one point, at least one digit.  The value is num / den.
ParseFloat(s) ==
    LET signed == s # <<>> /\ s[1] \in {"-", "+"}
        body == IF signed THEN Tail(s) ELSE s
        points == {i \in 1..Len(body) : body[i] = "."}
        digits == SelectSeq(body, IsDigit)
        wellFormed == /\ Cardinality(points) <= 1
                      /\ Len(digits) >= 1
                      /\ Len(digits) + Cardinality(points) = Len(body)
        fraction == IF points = {} THEN 0
                    ELSE Len(body) - (CHOOSE i \in points : TRUE)
        magnitude == DigitsValue(digits)
    IN IF wellFormed
       THEN [err |-> "nil",
             num |-> IF signed /\ s[1] = "-" THEN 0 - magnitude ELSE magnitude,
             den |-> Pow10(fraction)]
       ELSE [err |-> "syntax", num |-> 0, den |-> 1]

\* PriceLess with <= for <.
PriceLess_orEqual(bookPrice, t) == bookPrice * t.den <= t.num * 100

\* book.Price < price, the book's price in hundredths and price num / den.
PriceLess(bookPrice, t) == bookPrice * t.den < t.num * 100

\* book.Price > price
PriceGreater(bookPrice, t) == bookPrice * t.den > t.num * 100
\* The loop "for _, book := range books { if ... { append(wantedBooks, book) } }".
RECURSIVE wanted(_, _, _)
wanted(books, operator, t) ==
    IF books = <<>> THEN <<>>
    ELSE LET book == Head(books)
             keep == IF operator = ">" THEN PriceGreater(book.Price, t)
                     ELSE PriceLess(book.Price, t)
         IN (IF keep THEN <<book>> ELSE <<>>) \o wanted(Tail(books), operator, t)

\* func PriceFilter(filter Filter) (Books, error): filter.Price[0] on an empty
\* string is an index out of range, a run-time panic.
PriceFilterOf(price, f) ==
    LET g == GetBooksOf(f) IN
    IF g.err # "nil" THEN [err |-> g.err, books |-> <<>>]
    ELSE IF price = <<>> THEN [err |-> "panic", books |-> <<>>]
    ELSE IF price[1] \in {">", "<"}
    THEN LET t == ParseFloat(Tail(price)) IN
         IF t.err # "nil" THEN [err |-> t.err, books |-> <<>>]
         ELSE [err |-> "nil", books |-> wanted(g.books, price[1], t)]
    ELSE [err |-> "bad request", books |-> <<>>]

-----------------------------------------------------------------------------
(* The relational backend: the table of books behind InitDB *)

\* db.Find(&books): SELECT * FROM books.
dbFind(d) == d

\* db.Where("id = ?", id).First(&b): the first row with the id.
dbFirst(d, id) ==
    IF \E i \in 1..Len(d) : d[i].ID = id
    THEN [err |-> "nil",
          book |-> d[CHOOSE i \in 1..Len(d) :
                         /\ d[i].ID = id
                         /\ \A k \in 1..(i - 1) : d[k].ID # id]]
    ELSE [err |-> "record not found", book |-> ZeroBook]

\* db.Create(&book): a new row; the identifier is the key of the table.
dbCreate(d, book) ==
    IF book.ID \in IDsOf(d)
    THEN [err |-> "duplicate key", db |-> d]
    ELSE [err |-> "nil", db |-> Append(d, book)]

\* db.Save(&book): the row with the record's identifier is replaced by the
\* record, and the record is inserted when the table has no such row.
dbSave(d, book) ==
    IF book.ID \in IDsOf(d)
    THEN [err |-> "nil",
          db |-> [i \in 1..Len(d) |-> IF d[i].ID = book.ID THEN book ELSE d[i]]]
    ELSE [err |-> "nil", db |-> Append(d, book)]

\* db.Delete(&book): the rows with the record's identifier go.
dbDelete(d, book) ==
    [err |-> "nil", db |-> SelectSeq(d, LAMBDA row : row.ID # book.ID)]

-----------------------------------------------------------------------------
(* The methods of library: l.storage is the file, l.useSql the backend *)

\* func (l *library) writeData(books Books) error
library_writeData(f, books) == WriteFile(f, MarshalIndent(books))

\* library_wantedIndex that ends in "return 0, nil": no match is reported as the
\* first book.
library_wantedIndex_noError(id, books) ==
    IF \E i \in 1..Len(books) : books[i].ID = id
    THEN [err |-> "nil",
          index |-> CHOOSE i \in 1..Len(books) :
                        /\ books[i].ID = id
                        /\ \A k \in 1..(i - 1) : books[k].ID # id]
    ELSE IF books # <<>> THEN [err |-> "nil", index |-> 1]
    ELSE [err |-> "notfound", index |-> 0]

\* func (l *library) wantedIndex(id string, books Books) (int, error)
library_wantedIndex(id, books) ==
    IF \E i \in 1..Len(books) : books[i].ID = id
    THEN [err |-> "nil",
          index |-> CHOOSE i \in 1..Len(books) :
                        /\ books[i].ID = id
                        /\ \A k \in 1..(i - 1) : books[k].ID # id]
    ELSE [err |-> "notfound", index |-> 0]

\* func (l *library) GetBooks() (Books, error).  The file path ends in
\* "return books, json.Unmarshal(file, &books)": the compiler makes the call
\* first and reads books after it, so the caller gets the unmarshalled books.
library_GetBooksOf(sql, f, d) ==
    IF sql THEN [err |-> "nil", books |-> dbFind(d)]
    ELSE IF f.state = "missing" THEN [err |-> "io", books |-> <<>>]
    ELSE IF f.state = "corrupt" THEN [err |-> "json", books |-> <<>>]
    ELSE [err |-> "nil", books |-> Unmarshal(f.doc)]

\* The switch at the head of library.CreateBook: TRUE when the book is rejected.
library_notPopulated(book) ==
    \/ book.Genres.isNil
    \/ book.Pages = 0
    \/ book.Price = 0
    \/ book.Title = ""

\* library_CreateBookOutcomes that puts the book in front of the loaded books.
library_CreateBookOutcomes_prepending(book, sql, f, d, n) ==
    IF library_notPopulated(book)
    THEN {[err |-> "validation", id |-> "", file |-> f, db |-> d, issued |-> n]}
    ELSE LET id == NewV4(n) IN
         IF sql
         THEN LET c == dbCreate(d, WithID(book, id))
              IN {[err |-> c.err, id |-> id, file |-> f, db |-> c.db, issued |-> n + 1]}
         ELSE LET g == library_GetBooksOf(sql, f, d) IN
              IF g.err # "nil"
              THEN {[err |-> g.err, id |-> id, file |-> f, db |-> d, issued |-> n + 1]}
              ELSE LET books == <<WithID(book, id)>> \o g.books
                   IN {[err |-> w.err, id |-> id, file |-> w.file, db |-> d, issued |-> n + 1]
                         : w \in library_writeData(f, books)}

\* func (l *library) CreateBook(book Book) error: the identifier is drawn
\* before the backend is touched.
library_CreateBookOutcomes(book, sql, f, d, n) ==
    IF library_notPopulated(book)
    THEN {[err |-> "validation", id |-> "", file |-> f, db |-> d, issued |-> n]}
    ELSE LET id == NewV4(n) IN
         IF sql
         THEN LET c == dbCreate(d, WithID(book, id))
              IN {[err |-> c.err, id |-> id, file |-> f, db |-> c.db, issued |-> n + 1]}
         ELSE LET g == library_GetBooksOf(sql, f, d) IN
              IF g.err # "nil"
              THEN {[err |-> g.err, id |-> id, file |-> f, db |-> d, issued |-> n + 1]}
              ELSE LET books == Append(g.books, WithID(book, id))
                   IN {[err |-> w.err, id |-> id, file |-> w.file, db |-> d, issued |-> n + 1]
                         : w \in library_writeData(f, books)}

\* func (l *library) GetBook(id string) (Book, error)
library_GetBookOf(sql, f, d, id) ==
    IF sql THEN dbFirst(d, id)
    ELSE LET g == library_GetBooksOf(sql, f, d) IN
         IF g.err # "nil" THEN [err |-> g.err, book |-> ZeroBook]
         ELSE IF \E i \in 1..Len(g.books) : g.books[i].ID = id
         THEN [err |-> "nil",
               book |-> g.books[CHOOSE i \in 1..Len(g.books) :
                                    /\ g.books[i].ID = id
                                    /\ \A k \in 1..(i - 1) : g.books[k].ID # id]]
         ELSE [err |-> "notfound", book |-> ZeroBook]

\* library_removeAt that keeps books[:index] alone.
library_removeAt_truncating(books, index) == SubSeq(books, 1, index - 1)

\* append(books[:index], books[index+1:]...) of library.RemoveBook
library_removeAt(books, index) ==
    SubSeq(books, 1, index - 1) \o SubSeq(books, index + 1, Len(books))

\* func (l *library) RemoveBook(id string) error
library_RemoveBookOutcomes(id, sql, f, d) ==
    IF sql
    THEN LET b == dbFirst(d, id) IN
         IF b.err # "nil"
         THEN {[err |-> b.err, id |-> "", file |-> f, db |-> d]}
         ELSE LET x == dbDelete(d, b.book)
              IN {[err |-> x.err, id |-> "", file |-> f, db |-> x.db]}
    ELSE LET g == library_GetBooksOf(sql, f, d) IN
         IF g.err # "nil"
         THEN {[err |-> g.err, id |-> "", file |-> f, db |-> d]}
         ELSE LET w == library_wantedIndex(id, g.books) IN
              IF w.err # "nil"
              THEN {[err |-> w.err, id |-> "", file |-> f, db |-> d]}
              ELSE {[err |-> o.err, id |-> "", file |-> o.file, db |-> d]
                      : o \in library_writeData(f, library_removeAt(g.books, w.index))}

\* The four assignments of library.ChangeBook on the file path: every one of
\* the four fields of book takes the value of changedBook.
library_assign(book, changedBook) ==
    [book EXCEPT
       !.Price = changedBook.Price,
       !.Title = changedBook.Title,
       !.Pages = changedBook.Pages,
       !.Genres = changedBook.Genres]

\* func (l *library) ChangeBook(id string, changedBook Book) error: the
\* relational path looks the id up and then saves changedBook as it came.
library_ChangeBookOutcomes(id, changedBook, sql, f, d) ==
    IF sql
    THEN LET b == dbFirst(d, id) IN
         IF b.err # "nil"
         THEN {[err |-> b.err, id |-> "", file |-> f, db |-> d]}
         ELSE LET x == dbSave(d, changedBook)
              IN {[err |-> x.err, id |-> "", file |-> f, db |-> x.db]}
    ELSE LET g == library_GetBooksOf(sql, f, d) IN
         IF g.err # "nil"
         THEN {[err |-> g.err, id |-> "", file |-> f, db |-> d]}
         ELSE LET w == library_wantedIndex(id, g.books) IN
              IF w.err # "nil"
              THEN {[err |-> w.err, id |-> "", file |-> f, db |-> d]}
              ELSE LET books == [g.books EXCEPT
                                   ![w.index] = library_assign(@, changedBook)]
                   IN {[err |-> o.err, id |-> "", file |-> o.file, db |-> d]
                         : o \in library_writeData(f, books)}

\* The loop at the end of library.PriceFilter.
RECURSIVE library_wanted(_, _, _)
library_wanted(books, operator, t) ==
    IF books = <<>> THEN <<>>
    ELSE LET book == Head(books)
             keep == IF operator = ">" THEN PriceGreater(book.Price, t)
                     ELSE PriceLess(book.Price, t)
         IN (IF keep THEN <<book>> ELSE <<>>)
                \o library_wanted(Tail(books), operator, t)

\* library_PriceFilterOf without the test of l.useSql: the file is read on
\* either backend.
library_PriceFilterOf_onFile(price, sql, f, d) ==
    IF Len(price) <= 1 THEN [err |-> "Not valid data", books |-> <<>>]
    ELSE IF price[1] # "<" /\ price[1] # ">"
    THEN [err |-> "unsupported operation", books |-> <<>>]
    ELSE LET g == library_GetBooksOf(FALSE, f, d) IN
         IF g.err # "nil" THEN [err |-> g.err, books |-> <<>>]
         ELSE LET t == ParseFloat(Tail(price)) IN
              IF t.err # "nil" THEN [err |-> t.err, books |-> <<>>]
              ELSE [err |-> "nil", books |-> library_wanted(g.books, price[1], t)]

\* func (l *library) PriceFilter(filter BookFilter) (Books, error)
library_PriceFilterOf(price, sql, f, d) ==
    IF sql THEN [err |-> "NotImplemented", books |-> <<>>]
    ELSE IF Len(price) <= 1 THEN [err |-> "Not valid data", books |-> <<>>]
    ELSE IF price[1] # "<" /\ price[1] # ">"
    THEN [err |-> "unsupported operation", books |-> <<>>]
    ELSE LET g == library_GetBooksOf(sql, f, d) IN
         IF g.err # "nil" THEN [err |-> g.err, books |-> <<>>]
         ELSE LET t == ParseFloat(Tail(price)) IN
              IF t.err # "nil" THEN [err |-> t.err, books |-> <<>>]
              ELSE [err |-> "nil", books |-> library_wanted(g.books, price[1], t)]

-----------------------------------------------------------------------------
(* The arguments the callers pass *)

BaseBook == Book("", "Dune", 412, 100, Slice(<<"scifi">>))

\* Candidates of CreateBook: a fully populated book, the same with an
\* identifier supplied by the caller, and the book with one field absent, zero,
\* empty or negative.
Candidates ==
    { BaseBook,
      WithID(BaseBook, "u1"),
      [BaseBook EXCEPT !.Genres = NilSlice],
      [BaseBook EXCEPT !.Genres = Slice(<<>>)],
      [BaseBook EXCEPT !.Pages = 0],
      [BaseBook EXCEPT !.Pages = -1],
      [BaseBook EXCEPT !.Price = 0],
      [BaseBook EXCEPT !.Price = -100],
      [BaseBook EXCEPT !.Title = ""] }

FullPatch == Book("", "Emma", 300, 200, Slice(<<"drama">>))

\* Patches of ChangeBook: nothing, the price alone, all four fields, and all
\* four with an identifier supplied by the caller.
Patches ==
    { ZeroBook,
      [ZeroBook EXCEPT !.Price = 200],
      FullPatch,
      WithID(FullPatch, "u1"),
      WithID(FullPatch, "u2") }

\* Identifiers asked for: the empty one and every one that can be issued.
IDArgs == {""} \cup {UUIDs[i] : i \in 1..MaxUUID}

\* The characters filter expressions are written with.
Alphabet == {">", "<", "=", "0", "1", ".", "-"}

RECURSIVE StringsOfLen(_)
StringsOfLen(k) ==
    IF k = 0 THEN {<<>>}
    ELSE {<<c>> \o s : c \in Alphabet, s \in StringsOfLen(k - 1)}

\* Every filter expression of at most MaxFilterLen characters.
Filters == UNION {StringsOfLen(k) : k \in 0..MaxFilterLen}

\* The filter expressions tried between the other calls.
SampleFilters ==
    { <<>>, <<">">>, <<"=", "1">>, <<">", "1">>, <<"<", "1">>, <<">", "-">> }

-----------------------------------------------------------------------------
(* State and operations *)

\* NewLibrary(pathToStorage, useSql): the storage file is there with an empty
\* list, or is not there; the table is empty; nothing was called yet.
Init ==
    /\ file \in {JSONFile(<<>>), MissingFile}
    /\ db = <<>>
    /\ useSql \in BOOLEAN
    /\ issued = 0
    /\ ret = NoCall

\* The arguments a call can be made with: those of S when the caller holds no
\* result of an earlier call, none while it does.
Idle(S) == IF ret = NoCall THEN S ELSE {}

\* The catalog is short enough, and identifiers are left, for a create.
CanCreate(books) == issued < MaxUUID /\ Len(books) < MaxBooks

GetBooks ==
    /\ ret = NoCall
    /\ LET g == GetBooksOf(file)
       IN ret' = Ret("GetBooks", "", ZeroBook, <<>>, g.err, "", ZeroBook, g.books)
    /\ UNCHANGED <<file, db, useSql, issued>>

CreateBook(book) ==
    /\ ret = NoCall
    /\ CanCreate(file.doc)
    /\ \E o \in CreateBookOutcomes(book, file, issued) :
          /\ ret' = Ret("CreateBook", "", book, <<>>, o.err, o.id, ZeroBook, <<>>)
          /\ file' = o.file
          /\ issued' = o.issued
    /\ UNCHANGED <<db, useSql>>

GetBook(id) ==
    /\ ret = NoCall
    /\ LET g == GetBookOf(file, id)
       IN ret' = Ret("GetBook", id, ZeroBook, <<>>, g.err, "", g.book, <<>>)
    /\ UNCHANGED <<file, db, useSql, issued>>

RemoveBook(id) ==
    /\ ret = NoCall
    /\ \E o \in RemoveBookOutcomes(id, file) :
          /\ ret' = Ret("RemoveBook", id, ZeroBook, <<>>, o.err, o.id, ZeroBook, <<>>)
          /\ file' = o.file
    /\ UNCHANGED <<db, useSql, issued>>

ChangeBook(id, changedBook) ==
    /\ ret = NoCall
    /\ \E o \in ChangeBookOutcomes(id, changedBook, file) :
          /\ ret' = Ret("ChangeBook", id, changedBook, <<>>, o.err, o.id, ZeroBook, <<>>)
          /\ file' = o.file
    /\ UNCHANGED <<db, useSql, issued>>

PriceFilter(price) ==
    /\ ret = NoCall
    /\ LET r == PriceFilterOf(price, file)
       IN ret' = Ret("PriceFilter", "", ZeroBook, price, r.err, "", ZeroBook, r.books)
    /\ UNCHANGED <<file, db, useSql, issued>>

library_GetBooks ==
    /\ ret = NoCall
    /\ LET g == library_GetBooksOf(useSql, file, db)
       IN ret' = Ret("library.GetBooks", "", ZeroBook, <<>>, g.err, "", ZeroBook, g.books)
    /\ UNCHANGED <<file, db, useSql, issued>>

library_CreateBook(book) ==
    /\ ret = NoCall
    /\ CanCreate(IF useSql THEN db ELSE file.doc)
    /\ \E o \in library_CreateBookOutcomes(book, useSql, file, db, issued) :
          /\ ret' = Ret("library.CreateBook", "", book, <<>>, o.err, o.id, ZeroBook, <<>>)
          /\ file' = o.file
          /\ db' = o.db
          /\ issued' = o.issued
    /\ UNCHANGED useSql

\* library_GetBook that saves the books without the one it returns.
library_GetBook_taking(id) ==
    /\ ret = NoCall
    /\ LET g == library_GetBookOf(useSql, file, db, id)
       IN /\ ret' = Ret("library.GetBook", id, ZeroBook, <<>>, g.err, "", g.book, <<>>)
          /\ file' = IF g.err = "nil" /\ ~useSql
                     THEN JSONFile(MarshalIndent(
                              SelectSeq(Unmarshal(file.doc), LAMBDA b : b.ID # id)))
                     ELSE file
          /\ db' = IF g.err = "nil" /\ useSql
                   THEN SelectSeq(db, LAMBDA b : b.ID # id)
                   ELSE db
    /\ UNCHANGED <<useSql, issued>>

library_GetBook(id) ==
    /\ ret = NoCall
    /\ LET g == library_GetBookOf(useSql, file, db, id)
       IN ret' = Ret("library.GetBook", id, ZeroBook, <<>>, g.err, "", g.book, <<>>)
    /\ UNCHANGED <<file, db, useSql, issued>>

library_RemoveBook(id) ==
    /\ ret = NoCall
    /\ \E o \in library_RemoveBookOutcomes(id, useSql, file, db) :
          /\ ret' = Ret("library.RemoveBook", id, ZeroBook, <<>>, o.err, o.id, ZeroBook, <<>>)
          /\ file' = o.file
          /\ db' = o.db
    /\ UNCHANGED <<useSql, issued>>

library_ChangeBook(id, changedBook) ==
    /\ ret = NoCall
    /\ \E o \in library_ChangeBookOutcomes(id, changedBook, useSql, file, db) :
          /\ ret' = Ret("library.ChangeBook", id, changedBook, <<>>, o.err, o.id, ZeroBook, <<>>)
          /\ file' = o.file
          /\ db' = o.db
    /\ UNCHANGED <<useSql, issued>>

library_PriceFilter(price) ==
    /\ ret = NoCall
    /\ LET r == library_PriceFilterOf(price, useSql, file, db)
       IN ret' = Ret("library.PriceFilter", "", ZeroBook, price, r.err, "", ZeroBook, r.books)
    /\ UNCHANGED <<file, db, useSql, issued>>

\* The caller takes the result; the next call can be made.
Return ==
    /\ ret # NoCall
    /\ ret' = NoCall
    /\ UNCHANGED <<file, db, useSql, issued>>

\* The calls on a library, on either backend.
Next ==
    \/ library_GetBooks
    \/ \E book \in Idle(Candidates) : library_CreateBook(book)
    \/ \E id \in Idle(IDArgs) : library_GetBook(id)
    \/ \E id \in Idle(IDArgs) : library_RemoveBook(id)
    \/ \E id \in Idle(IDArgs), changedBook \in Patches : library_ChangeBook(id, changedBook)
    \/ \E price \in Idle(SampleFilters) : library_PriceFilter(price)
    \/ Return

Spec == Init /\ [][Next]_vars

\* The file backend: the package-level functions and the methods of a library
\* on the file work on the same storage file.
InitFile == Init /\ ~useSql

NextFile ==
    \/ GetBooks
    \/ \E book \in Idle(Candidates) : CreateBook(book)
    \/ \E id \in Idle(IDArgs) : GetBook(id)
    \/ \E id \in Idle(IDArgs) : RemoveBook(id)
    \/ \E id \in Idle(IDArgs), changedBook \in Patches : ChangeBook(id, changedBook)
    \/ \E price \in Idle(SampleFilters) : PriceFilter(price)
    \/ Next

SpecFile == InitFile /\ [][NextFile]_vars

-----------------------------------------------------------------------------
(* The price filter on its own: every expression, on catalogs the calls     *)
(* above leave in the file (prices below zero, zero, and above zero).       *)

FilterPrices == {-100, 0, 100, 200}

RECURSIVE CatalogsOfLen(_)
CatalogsOfLen(k) ==
    IF k = 0 THEN {<<>>}
    ELSE {Append(c, [BaseBook EXCEPT !.ID = UUIDs[k], !.Price = p])
            : c \in CatalogsOfLen(k - 1), p \in FilterPrices}

FilterCatalogs == UNION {CatalogsOfLen(k) : k \in 0..MaxBooks}

InitFilter ==
    /\ file \in {JSONFile(MarshalIndent(c)) : c \in FilterCatalogs} \cup {MissingFile}
    /\ db = <<>>
    /\ useSql = FALSE
    /\ issued = Len(file.doc)
    /\ ret = NoCall

NextFilter ==
    \/ \E price \in Idle(Filters) : PriceFilter(price)
    \/ \E price \in Idle(Filters) : library_PriceFilter(price)
    \/ Return

SpecFilter == InitFilter /\ [][NextFilter]_vars

-----------------------------------------------------------------------------
(* Two callers of one file library at the same time.  A mutating method is  *)
(* three steps on the file: it loads the collection (l.GetBooks), and       *)
(* l.writeData opens the file, which truncates it, and then writes the      *)
(* document.  Nothing keeps the steps of two calls apart.  Here ret holds   *)
(* the call of each caller.                                                 *)

Callers == {1, 2}

\* A call in progress: where it is ("idle", "loaded", "opened", "done"), its
\* arguments, the identifier a create drew, the collection it loaded, the
\* collection it is about to save, the error it returned, and whether its
\* write is the latest one that succeeded.
Call(pc, op, id, book, newID, loaded, books, err, last) ==
    [pc |-> pc, op |-> op, id |-> id, book |-> book, newID |-> newID,
     loaded |-> loaded, books |-> books, err |-> err, last |-> last]

IdleCall == Call("idle", "none", "", ZeroBook, "", <<>>, <<>>, "nil", FALSE)

\* The books written at the start of a race, and the patches.
RaceBooks == {BaseBook, FullPatch}

RacePatches == {FullPatch, [ZeroBook EXCEPT !.Price = 200]}

\* The catalogs the calls start from.
RaceCatalogs == {c \in FilterCatalogs : \A i \in 1..Len(c) : c[i].Price = 100}

InitRace ==
    /\ file \in {JSONFile(MarshalIndent(c)) : c \in RaceCatalogs}
    /\ db = <<>>
    /\ useSql = FALSE
    /\ issued = Len(file.doc)
    /\ ret = [c \in Callers |-> IdleCall]

\* library.CreateBook up to "books = append(books, book)" (lines 266-296).
library_CreateBook_load(c, book) ==
    /\ ret[c].pc = "idle"
    /\ CanCreate(file.doc)
    /\ IF library_notPopulated(book)
       THEN /\ ret' = [ret EXCEPT ![c] =
                   Call("done", "library.CreateBook", "", book, "", <<>>, <<>>,
                        "validation", FALSE)]
            /\ UNCHANGED issued
       ELSE LET id == NewV4(issued)
                g == library_GetBooksOf(FALSE, file, db)
            IN /\ issued' = issued + 1
               /\ ret' = [ret EXCEPT ![c] =
                     IF g.err # "nil"
                     THEN Call("done", "library.CreateBook", "", book, id, <<>>, <<>>,
                               g.err, FALSE)
                     ELSE Call("loaded", "library.CreateBook", "", book, id, g.books,
                               Append(g.books, WithID(book, id)), "nil", FALSE)]
    /\ UNCHANGED <<file, db, useSql>>

\* library.RemoveBook up to "books = append(books[:i], books[i+1:]...)"
\* (lines 355-364).
library_RemoveBook_load(c, id) ==
    /\ ret[c].pc = "idle"
    /\ LET g == library_GetBooksOf(FALSE, file, db)
           w == library_wantedIndex(id, g.books)
       IN ret' = [ret EXCEPT ![c] =
             IF g.err # "nil"
             THEN Call("done", "library.RemoveBook", id, ZeroBook, "", <<>>, <<>>,
                       g.err, FALSE)
             ELSE IF w.err # "nil"
             THEN Call("done", "library.RemoveBook", id, ZeroBook, "", g.books, <<>>,
                       w.err, FALSE)
             ELSE Call("loaded", "library.RemoveBook", id, ZeroBook, "", g.books,
                       library_removeAt(g.books, w.index), "nil", FALSE)]
    /\ UNCHANGED <<file, db, useSql, issued>>

\* library.ChangeBook up to the four assignments (lines 384-402).
library_ChangeBook_load(c, id, changedBook) ==
    /\ ret[c].pc = "idle"
    /\ LET g == library_GetBooksOf(FALSE, file, db)
           w == library_wantedIndex(id, g.books)
       IN ret' = [ret EXCEPT ![c] =
             IF g.err # "nil"
             THEN Call("done", "library.ChangeBook", id, changedBook, "", <<>>, <<>>,
                       g.err, FALSE)
             ELSE IF w.err # "nil"
             THEN Call("done", "library.ChangeBook", id, changedBook, "", g.books, <<>>,
                       w.err, FALSE)
             ELSE Call("loaded", "library.ChangeBook", id, changedBook, "", g.books,
                       [g.books EXCEPT ![w.index] = library_assign(@, changedBook)],
                       "nil", FALSE)]
    /\ UNCHANGED <<file, db, useSql, issued>>

\* ioutil.WriteFile opens the file with O_TRUNC: the file is empty, or the open
\* fails and the file is as it was.
library_writeData_open(c) ==
    /\ ret[c].pc = "loaded"
    /\ \/ /\ file' = CorruptFile
          /\ ret' = [ret EXCEPT ![c].pc = "opened"]
       \/ /\ ret' = [ret EXCEPT ![c].pc = "done", ![c].err = "io"]
          /\ UNCHANGED file
    /\ UNCHANGED <<db, useSql, issued>>

\* WriteBytes that appends to what the file holds.
WriteBytes_appending(f, doc) == {JSONFile(f.doc \o doc)}

\* What the write of ioutil.WriteFile leaves: the document, from the start of
\* the file.  When another call wrote since this one truncated, bytes of the
\* other document stay behind this one if it was longer: the file holds this
\* document, or no JSON document.
WriteBytes(f, doc) ==
    IF f.state = "json" THEN {JSONFile(doc), CorruptFile} ELSE {JSONFile(doc)}

\* The write of ioutil.WriteFile: the bytes are written and the call returns
\* nil, or the write fails.
library_writeData_write(c) ==
    /\ ret[c].pc = "opened"
    /\ \/ /\ file' \in WriteBytes(file, MarshalIndent(ret[c].books))
          /\ ret' = [k \in Callers |->
                       IF k = c THEN [ret[c] EXCEPT !.pc = "done", !.last = TRUE]
                       ELSE [ret[k] EXCEPT !.last = FALSE]]
       \/ /\ ret' = [ret EXCEPT ![c].pc = "done", ![c].err = "io"]
          /\ UNCHANGED file
    /\ UNCHANGED <<db, useSql, issued>>

NextRace ==
    \/ \E c \in Callers, book \in RaceBooks : library_CreateBook_load(c, book)
    \/ \E c \in Callers, id \in IDArgs : library_RemoveBook_load(c, id)
    \/ \E c \in Callers, id \in IDArgs, changedBook \in RacePatches :
          library_ChangeBook_load(c, id, changedBook)
    \/ \E c \in Callers : library_writeData_open(c)
    \/ \E c \in Callers : library_writeData_write(c)

SpecRace == InitRace /\ [][NextRace]_vars

-----------------------------------------------------------------------------
(* Saving a collection and loading it again: l.writeData(books), then       *)
(* l.GetBooks(), on a library of the file backend.                          *)

\* The books of the collections saved: populated ones, and ones with nil or
\* empty genres, no pages, a price below zero, a title that is no UTF-8.
RoundTripBooks ==
    { WithID(BaseBook, "u1"),
      WithID(FullPatch, "u2"),
      WithID([BaseBook EXCEPT !.Genres = NilSlice], "u3"),
      WithID([BaseBook EXCEPT !.Genres = Slice(<<>>)], "u1"),
      WithID([BaseBook EXCEPT !.Pages = 0, !.Price = -100], ""),
      WithID([BaseBook EXCEPT !.Title = InvalidUTF8], "u2") }

RECURSIVE CollectionsOfLen(_)
CollectionsOfLen(k) ==
    IF k = 0 THEN {<<>>}
    ELSE {Append(c, b) : c \in CollectionsOfLen(k - 1), b \in RoundTripBooks}

\* Every collection of at most MaxBooks of these books.
Collections == UNION {CollectionsOfLen(k) : k \in 0..MaxBooks}

InitRoundTrip == Init /\ ~useSql

\* l.writeData(books)
library_writeData_call(books) ==
    /\ ret = NoCall
    /\ \E w \in library_writeData(file, books) :
          /\ file' = w.file
          /\ ret' = Ret("library.writeData", "", ZeroBook, <<>>, w.err, "", ZeroBook, books)
    /\ UNCHANGED <<db, useSql, issued>>

\* l.GetBooks() after l.writeData returned.
library_GetBooks_call ==
    /\ ret.op = "library.writeData"
    /\ LET g == library_GetBooksOf(useSql, file, db)
       IN ret' = Ret("library.GetBooks", "", ZeroBook, <<>>, g.err, "", ZeroBook, g.books)
    /\ UNCHANGED <<file, db, useSql, issued>>

NextRoundTrip ==
    \/ \E books \in Collections : library_writeData_call(books)
    \/ library_GetBooks_call

SpecRoundTrip == InitRoundTrip /\ [][NextRoundTrip]_vars

-----------------------------------------------------------------------------
(* Properties *)

CreateOps == {"CreateBook", "library.CreateBook"}

RemoveOps == {"RemoveBook", "library.RemoveBook"}

ChangeOps == {"ChangeBook", "library.ChangeBook"}

GetOps == {"GetBook", "library.GetBook"}

FilterOps == {"PriceFilter", "library.PriceFilter"}

\* The four constraints of a catalog record.
Valid(book) ==
    /\ ~book.Genres.isNil
    /\ Len(book.Genres.elems) > 0
    /\ book.Pages > 0
    /\ book.Price > 0
    /\ book.Title # ""

\* The books a file holds (none when it cannot be loaded).
BooksIn(f) == IF f.state = "json" THEN Unmarshal(f.doc) ELSE <<>>

\* The stored collection of the library: the table or the file.
Stored == IF useSql THEN db ELSE BooksIn(file)

\* What GetBook of the implementation that ran op returns for id on file f.
GetAfter(op, f, id) ==
    IF op \in {"CreateBook", "RemoveBook", "ChangeBook"}
    THEN GetBookOf(f, id)
    ELSE library_GetBookOf(FALSE, f, <<>>, id)

C2_RejectsUnpopulated ==
    [][(/\ ret'.op \in CreateOps
        /\ file.state = "json"
        /\ \/ Len(ret'.book.Genres.elems) = 0
           \/ ret'.book.Pages = 0
           \/ ret'.book.Price = 0
           \/ ret'.book.Title = "")
         => (ret'.err = "validation" /\ file' = file /\ issued' = issued)]_vars

\* C3: every record a successful CreateBook stores has genres that are not
\* empty, pages above 0, a price above 0 and a title that is not empty.
C3_StoredIsValid ==
    [][(ret'.op \in CreateOps /\ ret'.err = "nil") =>
          /\ BooksIn(file') # <<>>
          /\ Valid(BooksIn(file')[Len(BooksIn(file'))])]_vars

\* C4: on the file backend a successful RemoveBook(id) of an identifier the
\* collection has leaves the collection one record shorter, with every record
\* of another identifier as it was and in the same order, and GetBook(id) then
\* returns the not-found error; with the identifier there, the call fails only
\* when the write does.
C4_RemoveExactlyOne ==
    [][(/\ ret'.op \in RemoveOps
        /\ file.state = "json"
        /\ ret'.id \in IDsOf(BooksIn(file)))
         => /\ ret'.err \in {"nil", "io"}
            /\ ret'.err = "nil" =>
                 /\ Len(BooksIn(file')) = Len(BooksIn(file)) - 1
                 /\ BooksIn(file') =
                      SelectSeq(BooksIn(file), LAMBDA b : b.ID # ret'.id)
                 /\ GetAfter(ret'.op, file', ret'.id).err = "notfound"]_vars

\* The library removed the first of two records; the second is still there.
C4_Witness ==
    /\ ret.op = "library.RemoveBook"
    /\ ret.err = "nil"
    /\ ret.id = "u1"
    /\ Len(BooksIn(file)) = 1
    /\ BooksIn(file)[1].ID = "u2"

\* The record of the collection s with the identifier id.
Target(s, id) == s[CHOOSE i \in 1..Len(s) : s[i].ID = id]

\* C5: a successful ChangeBook(id, patch) on the file backend sets each of
\* price, title, pages, genres of the target to the patch's value when that
\* value is present, and leaves it as it was when the value is absent.
C5_FieldByFieldMerge ==
    [][(ret'.op \in ChangeOps /\ ret'.err = "nil") =>
          LET old == Target(BooksIn(file), ret'.id)
              new == Target(BooksIn(file'), ret'.id)
              patch == ret'.book
          IN /\ new.Price = IF patch.Price # 0 THEN patch.Price ELSE old.Price
             /\ new.Title = IF patch.Title # "" THEN patch.Title ELSE old.Title
             /\ new.Pages = IF patch.Pages # 0 THEN patch.Pages ELSE old.Pages
             /\ new.Genres = IF Len(patch.Genres.elems) > 0 THEN patch.Genres
                             ELSE old.Genres]_vars

\* The numeric literals of at most two characters the alphabet writes, each
\* with its value in hundredths.
Numerals ==
    { [text |-> <<"0">>, value |-> 0],
      [text |-> <<"1">>, value |-> 100],
      [text |-> <<"0", "0">>, value |-> 0],
      [text |-> <<"0", "1">>, value |-> 100],
      [text |-> <<"1", "0">>, value |-> 1000],
      [text |-> <<"1", "1">>, value |-> 1100],
      [text |-> <<"0", ".">>, value |-> 0],
      [text |-> <<"1", ".">>, value |-> 100],
      [text |-> <<".", "0">>, value |-> 0],
      [text |-> <<".", "1">>, value |-> 10],
      [text |-> <<"-", "0">>, value |-> 0],
      [text |-> <<"-", "1">>, value |-> -100] }

\* C6: on a file that loads, PriceFilter of '>' or '<' followed by a numeric
\* literal t returns the records of the collection with a price above t (for
\* '>') or below t (for '<'), each once and in the order of the collection;
\* a record whose price is t is in neither result.
C6_PriceFilterExact ==
    \A n \in Numerals :
        (/\ ret.op \in FilterOps
         /\ file.state = "json"
         /\ Len(ret.price) >= 1
         /\ ret.price[1] \in {">", "<"}
         /\ Tail(ret.price) = n.text)
          => /\ ret.err = "nil"
             /\ ret.books =
                  SelectSeq(BooksIn(file),
                            LAMBDA b : IF ret.price[1] = ">" THEN b.Price > n.value
                                       ELSE b.Price < n.value)

\* The library filtered "<1" on a catalog with a price below 1.00 and the price
\* 1.00 itself, and returned the first record alone.
C6_Witness ==
    /\ ret.op = "library.PriceFilter"
    /\ ret.price = <<"<", "1">>
    /\ ret.err = "nil"
    /\ Len(BooksIn(file)) = 2
    /\ BooksIn(file)[1].Price = 0
    /\ BooksIn(file)[2].Price = 100
    /\ ret.books = <<BooksIn(file)[1]>>

\* The errors that report a filter expression that does not parse.
FilterParseErrors == {"Not valid data", "unsupported operation", "bad request", "syntax"}

\* An expression of at most one character, or that does not start with '>' or
\* '<', or whose rest (of at most two characters) is no numeric literal.
Malformed(price) ==
    \/ Len(price) <= 1
    \/ price[1] \notin {">", "<"}
    \/ Len(price) <= 3 /\ Tail(price) \notin {n.text : n \in Numerals}

\* C7: on a file that loads, PriceFilter of a malformed expression (the empty
\* one included) returns a filter parse error, and does not crash.
C7_MalformedIsParseError ==
    (ret.op \in FilterOps /\ file.state = "json" /\ Malformed(ret.price))
        => ret.err \in FilterParseErrors

\* C8: on a file that loads, GetBook, RemoveBook and ChangeBook of an
\* identifier no record has return the not-found error and leave the file as
\* it was.
C8_AbsentIsNotFound ==
    [][(/\ ret'.op \in GetOps \cup RemoveOps \cup ChangeOps
        /\ file.state = "json"
        /\ ret'.id \notin IDsOf(BooksIn(file)))
         => (ret'.err = "notfound" /\ file' = file)]_vars

\* The library was asked to change a record that had been removed, in a
\* catalog that still held another one.
C8_Witness ==
    /\ ret.op = "library.ChangeBook"
    /\ ret.err = "notfound"
    /\ ret.id = "u1"
    /\ ret.book = FullPatch
    /\ issued >= 2
    /\ Len(BooksIn(file)) = 1

\* C9: in the stored collection of the library no two records have the same
\* identifier and no record has the empty identifier.
C9_UniqueIdentifiers ==
    \A i, j \in 1..Len(Stored) :
        /\ Stored[i].ID # ""
        /\ i # j => Stored[i].ID # Stored[j].ID

\* The records of the collection s with another identifier than id.
Others(s, id) == {s[i] : i \in {k \in 1..Len(s) : s[k].ID # id}}

\* C10: a successful ChangeBook(id, patch) of the library, on either backend,
\* leaves the set of identifiers of the collection and every record of another
\* identifier as they were.
C10_ChangeKeepsIdentifiers ==
    [][(ret'.op = "library.ChangeBook" /\ ret'.err = "nil") =>
          /\ Len(Stored') = Len(Stored)
          /\ IDsOf(Stored') = IDsOf(Stored)
          /\ ret'.id \in IDsOf(Stored')
          /\ Others(Stored', ret'.id) = Others(Stored, ret'.id)]_vars

LibraryOps ==
    {"library.GetBooks", "library.CreateBook", "library.GetBook",
     "library.RemoveBook", "library.ChangeBook", "library.PriceFilter"}

\* C11: with a single caller every method of a library is all-or-nothing: a
\* call that returns an error leaves the storage (the file, the table) as it
\* was before the call; a call that returns no error has applied its effect (a
\* create appended the record, a remove took the target out).
C11_AllOrNothing ==
    [][ret'.op \in LibraryOps =>
         /\ ret'.err # "nil" => (file' = file /\ db' = db)
         /\ (ret'.err = "nil" /\ ret'.op = "library.CreateBook") =>
              Stored' = Append(Stored, WithID(ret'.book, ret'.newID))
         /\ (ret'.err = "nil" /\ ret'.op = "library.RemoveBook") =>
              /\ ret'.id \notin IDsOf(Stored')
              /\ Len(Stored') < Len(Stored)]_vars

\* What a call makes of the collection books when it runs alone: the
\* collection with its change, or the collection as it is when the call fails.
Effect(call, books) ==
    IF call.op = "library.CreateBook"
    THEN Append(books, WithID(call.book, call.newID))
    ELSE IF call.id \notin IDsOf(books) THEN books
    ELSE IF call.op = "library.RemoveBook"
    THEN SelectSeq(books, LAMBDA b : b.ID # call.id)
    ELSE [i \in 1..Len(books) |->
            IF books[i].ID = call.id
            THEN [call.book EXCEPT !.ID = call.id]
            ELSE books[i]]

\* C12: of two calls on the same file the last writer wins on the whole
\* document: when a call has returned success and its write is the latest, the
\* file holds the collection that call loaded with that call's change alone
\* (or no document, where the writes overlapped or a later one failed),
\* whatever another call saved in between.
C12_LastWriterWins ==
    \A c \in Callers :
        (ret[c].pc = "done" /\ ret[c].err = "nil" /\ ret[c].last) =>
            file \in {JSONFile(MarshalIndent(Effect(ret[c], ret[c].loaded))),
                      CorruptFile}

\* Both calls loaded the same collection and returned success, caller 1 saved
\* first and caller 2 last: the record caller 1 created is not in the file, and
\* the file is the outcome of neither order of the two calls run one after the
\* other.
C12_Witness ==
    /\ \A c \in Callers : ret[c].pc = "done" /\ ret[c].err = "nil"
    /\ ret[1].loaded = ret[2].loaded
    /\ ret[2].last
    /\ ret[1].op = "library.CreateBook"
    /\ file.state = "json"
    /\ ret[1].newID \notin IDsOf(BooksIn(file))
    /\ BooksIn(file) # Effect(ret[2], Effect(ret[1], ret[1].loaded))
    /\ BooksIn(file) # Effect(ret[1], Effect(ret[2], ret[1].loaded))

\* C13: on a library of the relational backend PriceFilter returns the
\* NotImplemented error and no books for every expression, empty, malformed or
\* well formed, whether or not the storage file is there, and leaves the table
\* and the file as they were.
C13_SqlFilterNotImplemented ==
    [][(ret'.op = "library.PriceFilter" /\ useSql) =>
          /\ ret'.err = "NotImplemented"
          /\ ret'.books = <<>>
          /\ file' = file
          /\ db' = db]_vars

\* A well-formed expression was answered with NotImplemented on a table that
\* holds a book, with no storage file to read.
C13_Witness ==
    /\ useSql
    /\ ret.op = "library.PriceFilter"
    /\ ret.price = <<">", "1">>
    /\ ret.err = "NotImplemented"
    /\ db # <<>>
    /\ file.state = "missing"

\* C14: a collection saved with writeData and then loaded with GetBooks comes
\* back as it was saved: the same records, with the same values of every
\* field, in the same order.
C14_RoundTrip ==
    [][(/\ ret.op = "library.writeData"
        /\ ret.err = "nil"
        /\ ret'.op = "library.GetBooks")
         => /\ ret'.err = "nil"
            /\ ret'.books = ret.books]_vars

\* C15: a successful CreateBook on the file backend leaves the collection one
\* record longer: the records it held, each as it was and in the same order,
\* followed by the new record, the candidate under the identifier assigned.
C15_CreateAppendsOne ==
    [][(ret'.op \in CreateOps /\ ret'.err = "nil") =>
          LET old == BooksIn(file)
              new == BooksIn(file')
          IN /\ file.state = "json"
             /\ Len(new) = Len(old) + 1
             /\ SubSeq(new, 1, Len(old)) = old
             /\ new[Len(new)] = [ret'.book EXCEPT !.ID = ret'.newID]]_vars

\* A create of the library succeeded on a file that held one book: the file
\* holds that book and then the new one.
C15_Witness ==
    /\ ~useSql
    /\ ret.op = "library.CreateBook"
    /\ ret.err = "nil"
    /\ Len(BooksIn(file)) = 2
    /\ BooksIn(file)[1].ID # ret.newID
    /\ BooksIn(file)[2].ID = ret.newID

\* The place of an identifier in the order identifiers are issued in, which is
\* the order the records are created in.
IssueIndex(id) == CHOOSE n \in 1..Len(UUIDs) : UUIDs[n] = id

C17_ParseErrorBeforeLoad ==
    (ret.op \in FilterOps /\ ret.price # <<>> /\ Malformed(ret.price))
        => ret.err \in FilterParseErrors

ReadOps == {"library.GetBooks", "library.GetBook", "library.PriceFilter"}

\* C18: GetBooks, GetBook and PriceFilter of a library leave the storage, the
\* file and the table, as it was, whether they return an error or not; the
\* stored collection differs after a step only when the step is a CreateBook,
\* a ChangeBook or a RemoveBook.
C18_ReadsChangeNothing ==
    [][/\ ret'.op \in ReadOps => (file' = file /\ db' = db)
       /\ Stored' # Stored =>
            ret'.op \in {"library.CreateBook", "library.ChangeBook",
                         "library.RemoveBook"}]_vars

\* GetBook returned a stored book, and the collection still holds it.
C18_Witness ==
    /\ ret.op = "library.GetBook"
    /\ ret.err = "nil"
    /\ ret.got.ID = ret.id
    /\ ret.id \in IDsOf(Stored)

\* How a call ended: with no error, with an error returned, or in a crash.
Outcome(err) ==
    IF err = "nil" THEN "success" ELSE IF err = "panic" THEN "crash" ELSE "error"

\* C19: on the file backend the package-level functions and the methods of a
\* library do the same: whatever a call of GetBooks, GetBook, CreateBook,
\* RemoveBook or PriceFilter of one of them did (how it ended, the records it
\* returned, the file it left), the other does from the same file with the
\* same arguments.
C19_SameOnFile ==
    [][~useSql =>
        /\ ret'.op = "GetBooks" =>
             LET l == library_GetBooksOf(FALSE, file, db)
             IN Outcome(l.err) = Outcome(ret'.err) /\ l.books = ret'.books
        /\ ret'.op = "library.GetBooks" =>
             LET p == GetBooksOf(file)
             IN Outcome(p.err) = Outcome(ret'.err) /\ p.books = ret'.books
        /\ ret'.op = "GetBook" =>
             LET l == library_GetBookOf(FALSE, file, db, ret'.id)
             IN Outcome(l.err) = Outcome(ret'.err) /\ l.book = ret'.got
        /\ ret'.op = "library.GetBook" =>
             LET p == GetBookOf(file, ret'.id)
             IN Outcome(p.err) = Outcome(ret'.err) /\ p.book = ret'.got
        /\ ret'.op = "CreateBook" =>
             \E o \in library_CreateBookOutcomes(ret'.book, FALSE, file, db, issued) :
                Outcome(o.err) = Outcome(ret'.err) /\ o.file = file'
        /\ ret'.op = "library.CreateBook" =>
             \E o \in CreateBookOutcomes(ret'.book, file, issued) :
                Outcome(o.err) = Outcome(ret'.err) /\ o.file = file'
        /\ ret'.op = "RemoveBook" =>
             \E o \in library_RemoveBookOutcomes(ret'.id, FALSE, file, db) :
                Outcome(o.err) = Outcome(ret'.err) /\ o.file = file'
        /\ ret'.op = "library.RemoveBook" =>
             \E o \in RemoveBookOutcomes(ret'.id, file) :
                Outcome(o.err) = Outcome(ret'.err) /\ o.file = file'
        /\ ret'.op = "PriceFilter" =>
             LET l == library_PriceFilterOf(ret'.price, FALSE, file, db)
             IN Outcome(l.err) = Outcome(ret'.err) /\ l.books = ret'.books
        /\ ret'.op = "library.PriceFilter" =>
             LET p == PriceFilterOf(ret'.price, file)
             IN Outcome(p.err) = Outcome(ret'.err) /\ p.books = ret'.books]_vars

=============================================================================
